---- MODULE Spec2Model ----
(***************************************************************************)
(* Model of src/src/main.rs: the attention Guardrails and the FeedEngine   *)
(* query pipeline.                                                         *)
(*                                                                         *)
(* f64 values are modelled as exact rationals <<numerator, denominator>>   *)
(* in lowest terms with a positive denominator.  Strings fed to the engine *)
(* are sequences of one-character strings; the tokens the engine derives   *)
(* from them (after to_lowercase and split_whitespace) are TLA+ strings.   *)
(***************************************************************************)
EXTENDS Integers, Sequences, FiniteSets, TLC

VARIABLES
    attention_scores,       \* Guardrails.attention_scores : Vec<f64>
    session_time_secs,      \* Guardrails.session_time_secs : f64
    current_hour,           \* Guardrails.current_hour : u8
    parent_break_override,  \* Guardrails.parent_break_override : Option<f64>
    history,                \* FeedEngine.history : Vec<VideoWatch>
    blacklist,              \* FeedEngine.blacklist : Vec<String>
    ret,                    \* the value returned by the last FeedEngine call
    calls                   \* the calls the last generate_query made, with arguments

guardVars == <<attention_scores, session_time_secs, current_hour, parent_break_override>>
feedVars == <<history, blacklist, ret, calls>>
vars == <<attention_scores, session_time_secs, current_hour, parent_break_override,
          history, blacklist, ret, calls>>

(***************************************************************************)
(* Bounds of the model.                                                    *)
(***************************************************************************)
MaxScores == 2        \* longest attention history explored
MaxSession == 1214    \* largest session time (seconds) explored
MaxHistory == 3       \* longest watch history explored
MaxWordCount == 4     \* largest word_count / n passed to a query

(***************************************************************************)
(* Exact rational arithmetic standing for f64 arithmetic.                  *)
(***************************************************************************)
Abs(x) == IF x < 0 THEN -x ELSE x

RECURSIVE GCD(_, _)
GCD(a, b) == IF b = 0 THEN a ELSE GCD(b, a % b)

Rat(n, d) ==
    LET s == IF d < 0 THEN -1 ELSE 1
        g == GCD(Abs(n), Abs(d))
    IN  <<(s * n) \div g, (s * d) \div g>>

RInt(n) == <<n, 1>>
RAdd(x, y) == Rat(x[1] * y[2] + y[1] * x[2], x[2] * y[2])
RMul(x, y) == Rat(x[1] * y[1], x[2] * y[2])
RDiv(x, y) == Rat(x[1] * y[2], x[2] * y[1])
RLess(x, y) == x[1] * y[2] < y[1] * x[2]
RGreater(x, y) == RLess(y, x)
\* f64::ceil: the least integer not below x
RCeil(x) == IF x[1] % x[2] = 0 THEN x[1] \div x[2] ELSE (x[1] \div x[2]) + 1

RECURSIVE RSum(_)
RSum(s) == IF s = <<>> THEN RInt(0) ELSE RAdd(Head(s), RSum(Tail(s)))

(***************************************************************************)
(* VideoWatch                                                              *)
(***************************************************************************)
\* fn attention_ratio(&self) -> f64
attention_ratio(watch) ==
    IF watch.video_length = 0
    THEN RInt(0)
    ELSE RDiv(RInt(watch.watch_time), RInt(watch.video_length))

(***************************************************************************)
(* Guardrails                                                              *)
(***************************************************************************)
QualifyingSecs == 7       \* if watch.watch_time < 7.0
BaseBreakMinutes == 5     \* let base = 5.0
HoursPerDay == 24         \* self.current_hour as f64 / 24.0
SecsPerMinute == 60       \* self.session_time_secs / 60.0
HardLimitMinutes == 20    \* if session_min > 20.0
DoomscrollMinutes == 8    \* session_min > 8.0
LowAttention == <<1, 4>>  \* self.avg_attention() < 0.25
None == "None"            \* Option::None

\* Watch events fed to the guardrails: durations around the 7 s threshold and
\* durations that add up to exactly 8 and 20 minutes; video lengths that give
\* the ratios 0 (length 0), 1, 1/4 and 1/8.
GuardWatchTimes == {6, 7, 240, 480, 720}
LengthFactors == {0, 1, 4, 8}
GuardWatches ==
    {[watch_time |-> t, video_length |-> f * t] : t \in GuardWatchTimes, f \in LengthFactors}
GuardHours == {0, 12, 23}
GuardOverrides == {None, RInt(0), Rat(45, 2)}

\* fn new(hour: u8) -> Guardrails; parent_break_override is a plain field the
\* embedding code may set after construction.
GuardInit ==
    /\ attention_scores = <<>>
    /\ session_time_secs = 0
    /\ current_hour \in GuardHours
    /\ parent_break_override \in GuardOverrides

\* faulty variant: record without the 7-second threshold
RecordNoThreshold(watch) ==
    /\ Len(attention_scores) < MaxScores
    /\ session_time_secs + watch.watch_time <= MaxSession
    /\ attention_scores' = Append(attention_scores, attention_ratio(watch))
    /\ session_time_secs' = session_time_secs + watch.watch_time
    /\ UNCHANGED <<current_hour, parent_break_override>>

\* fn record(&mut self, watch: &VideoWatch)
Record(watch) ==
    IF watch.watch_time < QualifyingSecs
    THEN UNCHANGED guardVars
    ELSE /\ Len(attention_scores) < MaxScores
         /\ session_time_secs + watch.watch_time <= MaxSession
         /\ attention_scores' = Append(attention_scores, attention_ratio(watch))
         /\ session_time_secs' = session_time_secs + watch.watch_time
         /\ UNCHANGED <<current_hour, parent_break_override>>

\* fn avg_attention(&self) -> f64
avg_attention ==
    IF attention_scores = <<>>
    THEN RInt(1)
    ELSE RDiv(RSum(attention_scores), RInt(Len(attention_scores)))

\* faulty variant: the override clamped to the base, the hour scaled by 23
BreakLengthClamped ==
    IF parent_break_override # None /\ RLess(parent_break_override, RInt(BaseBreakMinutes))
    THEN RInt(BaseBreakMinutes)
    ELSE IF parent_break_override # None
    THEN parent_break_override
    ELSE RAdd(RInt(BaseBreakMinutes),
              RMul(RInt(BaseBreakMinutes),
                   RDiv(RInt(current_hour), RInt(HoursPerDay - 1))))

\* fn break_length_minutes(&self) -> f64
break_length_minutes ==
    IF parent_break_override # None
    THEN parent_break_override
    ELSE LET base == RInt(BaseBreakMinutes)
             hour_scale == RDiv(RInt(current_hour), RInt(HoursPerDay))
         IN  RAdd(base, RMul(base, hour_scale))

\* faulty variant: the three comparisons made inclusive
ShouldBreakInclusive ==
    LET session_min == RDiv(RInt(session_time_secs), RInt(SecsPerMinute))
    IN  \/ ~RLess(session_min, RInt(HardLimitMinutes))
        \/ /\ ~RGreater(avg_attention, LowAttention)
           /\ ~RLess(session_min, RInt(DoomscrollMinutes))

\* fn should_break(&self) -> bool
should_break ==
    LET session_min == RDiv(RInt(session_time_secs), RInt(SecsPerMinute))
    IN  IF RGreater(session_min, RInt(HardLimitMinutes))
        THEN TRUE
        ELSE IF RLess(avg_attention, LowAttention)
                /\ RGreater(session_min, RInt(DoomscrollMinutes))
        THEN TRUE
        ELSE FALSE

\* faulty variant: the reset also clears the session time
ResetDailyAll ==
    /\ attention_scores' = <<>>
    /\ session_time_secs' = 0
    /\ UNCHANGED <<current_hour, parent_break_override>>

\* fn reset_daily(&mut self)
ResetDaily ==
    /\ attention_scores' = <<>>
    /\ UNCHANGED <<session_time_secs, current_hour, parent_break_override>>

GuardNext ==
    \/ \E watch \in GuardWatches : Record(watch) /\ UNCHANGED feedVars
    \/ ResetDaily /\ UNCHANGED feedVars

(***************************************************************************)
(* Strings: to_lowercase and split_whitespace                              *)
(***************************************************************************)
UpperCase == <<"A", "B", "C", "D", "E", "F", "G", "H", "I", "J", "K", "L", "M",
               "N", "O", "P", "Q", "R", "S", "T", "U", "V", "W", "X", "Y", "Z">>
LowerCase == <<"a", "b", "c", "d", "e", "f", "g", "h", "i", "j", "k", "l", "m",
               "n", "o", "p", "q", "r", "s", "t", "u", "v", "w", "x", "y", "z">>
WhiteSpace == {" ", "\t", "\n"}

LowerChar(c) ==
    IF \E i \in DOMAIN UpperCase : UpperCase[i] = c
    THEN LowerCase[CHOOSE i \in DOMAIN UpperCase : UpperCase[i] = c]
    ELSE c

\* str::to_lowercase on a sequence of characters
to_lowercase(s) == [i \in DOMAIN s |-> LowerChar(s[i])]

\* the String holding the characters of s
RECURSIVE Str(_)
Str(s) == IF s = <<>> THEN "" ELSE Head(s) \o Str(Tail(s))

\* str::split_whitespace: the maximal runs of non-whitespace characters, in
\* order; cur is the run being read
RECURSIVE SplitFrom(_, _)
SplitFrom(s, cur) ==
    IF s = <<>>
    THEN IF cur = <<>> THEN <<>> ELSE <<Str(cur)>>
    ELSE IF Head(s) \in WhiteSpace
    THEN IF cur = <<>>
         THEN SplitFrom(Tail(s), <<>>)
         ELSE <<Str(cur)>> \o SplitFrom(Tail(s), <<>>)
    ELSE SplitFrom(Tail(s), Append(cur, Head(s)))

split_whitespace(s) == SplitFrom(s, <<>>)

\* watch.video_name.to_lowercase().split_whitespace()
SplitTitle(watch) == split_whitespace(to_lowercase(watch.video_name))

\* tag.to_lowercase() for each tag of watch.hashtags
LowerEachTag(watch) ==
    [i \in DOMAIN watch.hashtags |-> Str(to_lowercase(watch.hashtags[i]))]

Contains(s, x) == \E i \in DOMAIN s : s[i] = x

\* the elements of s that are not in the sequence bl, in order
RECURSIVE Unlisted(_, _)
Unlisted(s, bl) ==
    IF s = <<>> THEN <<>>
    ELSE IF Contains(bl, Head(s))
    THEN Unlisted(Tail(s), bl)
    ELSE <<Head(s)>> \o Unlisted(Tail(s), bl)

(***************************************************************************)
(* FeedEngine                                                              *)
(***************************************************************************)
Trending == "trending"     \* String::from("trending")
RecencyScale == 3          \* (weight * 3.0).ceil()

\* Watch events fed to the engine; the engine reads neither watch_time nor
\* video_length nor watched_at, and the guardrails read nothing else.
Watch(name, tags, isLiked, isDisliked) ==
    [video_name |-> name, hashtags |-> tags, liked |-> isLiked, disliked |-> isDisliked]

FeedWatches ==
    { Watch(<<"A", " ", "b">>, << <<"B">> >>, TRUE, FALSE),
      Watch(<<" ", "a", " ", " ">>, <<>>, FALSE, FALSE),
      Watch(<<"T", "r", "e", "n", "d", "i", "n", "g">>, << <<"A">> >>, FALSE, TRUE),
      Watch(<<"c", " ", "B">>, << <<"c">> >>, FALSE, TRUE),
      Watch(<<"b", "\t", "C">>, << <<"D">> >>, FALSE, FALSE) }

\* SplitTitle and LowerEachTag of the watch events, tabulated once
TitleWordsOf == [w \in FeedWatches |-> SplitTitle(w)]
LowerTagsOf == [w \in FeedWatches |-> LowerEachTag(w)]
TitleWords(watch) == TitleWordsOf[watch]
LowerTags(watch) == LowerTagsOf[watch]

NoRet == [op |-> "none", arg |-> 0, val |-> <<>>]

\* fn new() -> FeedEngine
FeedInit ==
    /\ history = <<>>
    /\ blacklist = <<>>
    /\ ret = NoRet
    /\ calls = <<>>

\* what add_watch pushes on the blacklist for a disliked watch: the lowercased
\* tags, then the lowercased title words
Blocked(watch) == LowerTags(watch) \o TitleWords(watch)

\* faulty variant: only the tags of a disliked watch are blocked
AddWatchTagsOnly(watch) ==
    /\ Len(history) < MaxHistory
    /\ blacklist' = IF watch.disliked THEN blacklist \o LowerTags(watch) ELSE blacklist
    /\ history' = Append(history, watch)
    /\ ret' = [op |-> "add_watch", arg |-> 0, val |-> <<>>]
    /\ calls' = <<>>

\* fn add_watch(&mut self, watch: VideoWatch)
AddWatch(watch) ==
    /\ Len(history) < MaxHistory
    /\ blacklist' = IF watch.disliked THEN blacklist \o Blocked(watch) ELSE blacklist
    /\ history' = Append(history, watch)
    /\ ret' = [op |-> "add_watch", arg |-> 0, val |-> <<>>]
    /\ calls' = <<>>

\* faulty variant: the repeat count rounded down instead of up
RepeatsFloor(i, len) == (RecencyScale * i) \div len

\* let weight = (i + 1) as f64 / len as f64; let repeats = (weight * 3.0).ceil()
\* for the watch at 1-based position i of len
Repeats(i, len) ==
    LET weight == RDiv(RInt(i), RInt(len))
    IN  RCeil(RMul(weight, RInt(RecencyScale)))

\* faulty variant: a pass that does not consult the blacklist
OnePassUnfiltered(watch, bl) ==
    TitleWords(watch) \o LowerTags(watch) \o (IF watch.liked THEN LowerTags(watch) ELSE <<>>)

\* the tokens one pass of the `for _ in 0..repeats` body pushes for a watch
OnePass(watch, bl) ==
    Unlisted(TitleWords(watch), bl)
        \o Unlisted(LowerTags(watch), bl)
        \o (IF watch.liked THEN Unlisted(LowerTags(watch), bl) ELSE <<>>)

RECURSIVE Times(_, _)
Times(s, n) == IF n = 0 THEN <<>> ELSE s \o Times(s, n - 1)

\* the tokens extract_words pushes for the watch at position i of hist
ExtractEvent(hist, bl, i) ==
    IF hist[i].disliked
    THEN <<>>
    ELSE Times(OnePass(hist[i], bl), Repeats(i, Len(hist)))

RECURSIVE ExtractFrom(_, _, _)
ExtractFrom(hist, bl, i) ==
    IF i > Len(hist) THEN <<>>
    ELSE ExtractEvent(hist, bl, i) \o ExtractFrom(hist, bl, i + 1)

\* fn extract_words(&self) -> Vec<String>
extract_words(hist, bl) == IF Len(hist) = 0 THEN <<>> ELSE ExtractFrom(hist, bl, 1)

\* the words that follow an occurrence of k in words, in order
RECURSIVE Successors(_, _)
Successors(words, k) ==
    IF Len(words) < 2 THEN <<>>
    ELSE (IF words[1] = k THEN <<words[2]>> ELSE <<>>) \o Successors(Tail(words), k)

\* fn build_markov(&self, words: &[String]) -> HashMap<String, Vec<String>>
build_markov(words) ==
    [k \in {words[j] : j \in 1..(Len(words) - 1)} |-> Successors(words, k)]

\* the loop `for i in 0..steps` of walk_markov, from iteration i on
RECURSIVE WalkFrom(_, _, _, _, _)
WalkFrom(chain, result, current, i, steps) ==
    IF i >= steps THEN result
    ELSE IF current \notin DOMAIN chain THEN result
    ELSE LET nexts == chain[current]
             pick == nexts[(i % Len(nexts)) + 1]
         IN  WalkFrom(chain,
                      IF Contains(result, pick) THEN result ELSE Append(result, pick),
                      pick, i + 1, steps)

\* fn walk_markov(&self, chain, start: &str, steps: usize) -> Vec<String>
walk_markov(chain, start, steps) == WalkFrom(chain, <<start>>, start, 0, steps)

NotDisliked(w) == ~w.disliked

\* the documents of tfidf_top_words: one per watch that is not disliked
Docs(hist) ==
    LET kept == SelectSeq(hist, NotDisliked)
    IN  [i \in DOMAIN kept |-> TitleWords(kept[i]) \o LowerTags(kept[i])]

\* tf[word] of one document
Count(doc, word) == Cardinality({i \in DOMAIN doc : doc[i] = word})

\* 10^4 * ln(k) for k = 1..6, rounded so that ln(4) = 2 ln(2) and ln(6) = ln(2) + ln(3)
LnTable == <<0, 6931, 10986, 13862, 16094, 17917>>

\* f64::ln of the rational x = total_docs / docs_with_word, in units of 10^-4
Ln(x) == Rat(LnTable[x[1]] - LnTable[x[2]], 10000)

\* the score tfidf_top_words accumulates for word over the documents
RECURSIVE ScoreFrom(_, _, _)
ScoreFrom(docs, word, d) ==
    IF d > Len(docs) THEN RInt(0)
    ELSE LET doc == docs[d]
             docs_with_word == Cardinality({e \in DOMAIN docs : Contains(docs[e], word)})
             idf == Ln(Rat(Len(docs), docs_with_word))
             tf_score == Rat(Count(doc, word), Len(doc))
         IN  IF Contains(doc, word)
             THEN RAdd(RMul(tf_score, idf), ScoreFrom(docs, word, d + 1))
             ELSE ScoreFrom(docs, word, d + 1)

Score(docs, word) == ScoreFrom(docs, word, 1)

\* the keys of `scores`: the words of the documents that are not blacklisted
ScoredWords(docs, bl) ==
    UNION {{docs[d][i] : i \in DOMAIN docs[d]} : d \in DOMAIN docs}
        \ {bl[i] : i \in DOMAIN bl}

\* the scores map of tfidf_top_words
Scores(docs, bl) == [w \in ScoredWords(docs, bl) |-> Score(docs, w)]

\* the orders of the words S in which no word precedes one of a higher score
RECURSIVE Descending(_, _)
Descending(S, scores) ==
    IF S = {} THEN {<<>>}
    ELSE LET top == {w \in S : \A v \in S : ~RLess(scores[w], scores[v])}
         IN  UNION {{<<w>> \o p : p \in Descending(S \ {w}, scores)} : w \in top}

RECURSIVE AnyOrder(_, _)
AnyOrder(S, scores) ==
    IF S = {} THEN {<<>>}
    ELSE UNION {{<<w>> \o p : p \in AnyOrder(S \ {w}, scores)} : w \in S}

\* faulty variant: `scored` left in the hash map's order, not sorted
OrdersUnsorted(scores) == AnyOrder(DOMAIN scores, scores)

\* `scored` after sort_by: scores.into_iter() yields the entries in the hash
\* map's order, which differs from one HashMap to the next, and the sort is
\* stable, so every order that is descending in score can come out
SortedOrders(scores) == Descending(DOMAIN scores, scores)

Min(a, b) == IF a < b THEN a ELSE b

\* Iterator::take(n) / Vec::truncate(n)
Take(s, n) == SubSeq(s, 1, Min(n, Len(s)))

\* fn tfidf_top_words(&self, n: usize) -> Vec<String>: the sequences it can return
tfidf_top_words(hist, bl, n) ==
    LET docs == Docs(hist)
    IN  IF docs = <<>>
        THEN {<<>>}
        ELSE {Take(p, n) : p \in SortedOrders(Scores(docs, bl))}

\* the merge loops of generate_query: push each w of s that result lacks
RECURSIVE Merge(_, _)
Merge(result, s) ==
    IF s = <<>> THEN result
    ELSE Merge(IF Contains(result, Head(s)) THEN result ELSE Append(result, Head(s)),
               Tail(s))

\* faulty variant: the half rounded up
HalfRoundedUp(word_count) == (word_count + 1) \div 2

\* let half = word_count / 2
Half(word_count) == word_count \div 2

\* faulty variant: the merged result returned without truncate
QueryNoTruncate(words, word_count, tfidf_words) ==
    LET chain == build_markov(words)
        start == IF tfidf_words # <<>> THEN tfidf_words[1] ELSE words[1]
        markov_words == walk_markov(chain, start, Half(word_count))
    IN  Merge(Merge(<<>>, tfidf_words), markov_words)

\* generate_query past its two early returns, given what extract_words and
\* tfidf_top_words returned
QueryAt(words, word_count, tfidf_words) ==
    LET chain == build_markov(words)
        start == IF tfidf_words # <<>> THEN tfidf_words[1] ELSE words[1]
        markov_words == walk_markov(chain, start, Half(word_count))
    IN  Take(Merge(Merge(<<>>, tfidf_words), markov_words), word_count)

\* a call of tfidf_top_words(n) on the engine
CallTfidf(n) ==
    /\ \E r \in tfidf_top_words(history, blacklist, n) :
           ret' = [op |-> "tfidf_top_words", arg |-> n, val |-> r]
    /\ calls' = <<>>
    /\ UNCHANGED <<history, blacklist>>

\* fn generate_query(&self, word_count: usize) -> Vec<String>
GenerateQuery(word_count) ==
    LET words == extract_words(history, blacklist)
        half == Half(word_count)
    IN  /\ UNCHANGED <<history, blacklist>>
        /\ IF history = <<>>
           THEN /\ ret' = [op |-> "generate_query", arg |-> word_count, val |-> <<Trending>>]
                /\ calls' = <<>>
           ELSE IF words = <<>>
           THEN /\ ret' = [op |-> "generate_query", arg |-> word_count, val |-> <<Trending>>]
                /\ calls' = <<>>
           ELSE \E tfidf_words \in tfidf_top_words(history, blacklist, half) :
                /\ ret' = [op |-> "generate_query", arg |-> word_count,
                           val |-> QueryAt(words, word_count, tfidf_words)]
                /\ calls' = << <<"tfidf_top_words", half>>, <<"walk_markov", half>> >>

FeedNext ==
    \/ \E watch \in FeedWatches : AddWatch(watch) /\ UNCHANGED guardVars
    \/ \E n \in 0..MaxWordCount : CallTfidf(n) /\ UNCHANGED guardVars
    \/ \E word_count \in 0..MaxWordCount : GenerateQuery(word_count) /\ UNCHANGED guardVars

(***************************************************************************)
(* Specifications                                                          *)
(***************************************************************************)
Init == GuardInit /\ FeedInit

\* the guardrails under any sequence of record and reset_daily calls
SpecGuardrails == Init /\ [][GuardNext]_vars

\* the engine (with a guardrail at hour 0, no override) under any sequence of
\* add_watch, tfidf_top_words and generate_query calls
FeedEngineInit == Init /\ current_hour = 0 /\ parent_break_override = None
SpecFeed == FeedEngineInit /\ [][FeedNext]_vars

\* both objects together; they share no state, so each is checked on its own
Next == GuardNext \/ FeedNext
Spec == Init /\ [][Next]_vars

(***************************************************************************)
(* Claims about the guardrails (checked under SpecGuardrails)              *)
(***************************************************************************)
Quarter == <<1, 4>>
REq(x, y) == x[1] * y[2] = y[1] * x[2]

\* C1: in every reachable guardrail state should_break() is true exactly when
\* the session is longer than 20 minutes (1200 s), or the average attention is
\* below 0.25 and the session is longer than 8 minutes (480 s); it is false at
\* exactly 20 minutes with attention >= 0.25, at exactly 8 minutes, and at
\* average attention exactly 0.25 with a session of at most 20 minutes.
C1_ShouldBreakIff ==
    /\ should_break <=>
           \/ session_time_secs > 1200
           \/ RLess(avg_attention, Quarter) /\ session_time_secs > 480
    /\ session_time_secs = 1200 /\ ~RLess(avg_attention, Quarter) => ~should_break
    /\ session_time_secs = 480 => ~should_break
    /\ REq(avg_attention, Quarter) /\ session_time_secs <= 1200 => ~should_break

\* C1 witness: exactly 20 minutes recorded at an average attention of exactly 0.25
C1_Witness ==
    /\ session_time_secs = 1200
    /\ Len(attention_scores) = 2
    /\ REq(avg_attention, Quarter)
    /\ ~should_break

\* C5 as stated: the override verbatim when set; otherwise 5.0 at hour 0 and
\* 10.0 at hour 23.
C5_Original ==
    /\ parent_break_override # None => break_length_minutes = parent_break_override
    /\ parent_break_override = None /\ current_hour = 0 => REq(break_length_minutes, RInt(5))
    /\ parent_break_override = None /\ current_hour = 23 => REq(break_length_minutes, RInt(10))

\* C5 amended: break_length_minutes() returns the override verbatim when one is
\* set (no formula, no clamping); with no override it returns 5.0 at hour 0 and
\* 5 + 5 * 23/24 = 235/24 (about 9.79) at hour 23.
C5_BreakLength ==
    /\ parent_break_override # None => break_length_minutes = parent_break_override
    /\ parent_break_override = None /\ current_hour = 0 => REq(break_length_minutes, RInt(5))
    /\ parent_break_override = None /\ current_hour = 23 => REq(break_length_minutes, <<235, 24>>)

\* C5 witness: hour 23 without an override, after some watch was recorded
C5_Witness ==
    /\ parent_break_override = None
    /\ current_hour = 23
    /\ session_time_secs > 0
    /\ REq(break_length_minutes, <<235, 24>>)

\* C6: record with a watch duration below 7 s changes neither the attention
\* history nor the session time; with 7 s or more it appends exactly one ratio,
\* watch duration / video duration (0 when the video duration is 0), and adds
\* the watch duration to the session time.
C6_RecordFrame ==
    [][\A watch \in GuardWatches :
          Record(watch) =>
              IF watch.watch_time < 7
              THEN /\ attention_scores' = attention_scores
                   /\ session_time_secs' = session_time_secs
              ELSE /\ Len(attention_scores') = Len(attention_scores) + 1
                   /\ SubSeq(attention_scores', 1, Len(attention_scores)) = attention_scores
                   /\ LET r == attention_scores'[Len(attention_scores')]
                      IN  IF watch.video_length = 0
                          THEN r[1] = 0
                          ELSE r[1] * watch.video_length = r[2] * watch.watch_time
                   /\ session_time_secs' = session_time_secs + watch.watch_time]_vars

\* C6 witness: a watch of exactly 7 s was recorded
C6_Witness ==
    /\ session_time_secs = 7
    /\ Len(attention_scores) = 1

\* C8: reset_daily empties the attention history and leaves session time, hour
\* and override alone, so average attention is 1.0 right after it; and once the
\* session time has passed 20 minutes should_break() is true and stays true over
\* every later record and reset_daily.
C8_ResetDaily ==
    [][/\ ResetDaily =>
              /\ attention_scores' = <<>>
              /\ session_time_secs' = session_time_secs
              /\ current_hour' = current_hour
              /\ parent_break_override' = parent_break_override
              /\ avg_attention' = RInt(1)
       /\ session_time_secs > 1200 => should_break /\ should_break']_vars

\* C8 witness: the attention history is empty again after more than 20 minutes
C8_Witness ==
    /\ session_time_secs > 1200
    /\ attention_scores = <<>>
    /\ should_break

(***************************************************************************)
(* Claims about the feed engine (checked under SpecFeed)                   *)
(***************************************************************************)
Excluded(token) == Contains(blacklist, token)
NoneExcluded(s) == \A j \in DOMAIN s : ~Excluded(s[j])
NoDuplicates(s) == \A i, j \in DOMAIN s : i # j => s[i] # s[j]
words_now == extract_words(history, blacklist)
IsQuery == ret.op = "generate_query"
IsTfidf == ret.op = "tfidf_top_words"

\* every lowercased tag and lowercased title word of the watch
RawTokens(watch) ==
    {Str(to_lowercase(watch.hashtags[i])) : i \in DOMAIN watch.hashtags}
        \cup {SplitTitle(watch)[i] : i \in DOMAIN SplitTitle(watch)}

\* C2: every lowercased tag and lowercased title word of every disliked event
\* is in the exclusion list, and neither extract_words nor tfidf_top_words
\* emits an excluded token, whatever other events carry the same tag or word.
C2_Exclusion ==
    /\ \A i \in DOMAIN history :
           history[i].disliked => \A t \in RawTokens(history[i]) : Excluded(t)
    /\ NoneExcluded(words_now)
    /\ IsTfidf => NoneExcluded(ret.val)

\* C2 witness: a liked event and a disliked event share the token "b", and
\* both term extraction and relevance scoring still return something
C2_Witness ==
    /\ \E i, j \in DOMAIN history :
           /\ history[i].disliked /\ "b" \in RawTokens(history[i])
           /\ ~history[j].disliked /\ history[j].liked /\ "b" \in RawTokens(history[j])
    /\ words_now # <<>>
    /\ IsTfidf /\ ret.val # <<>>

\* C3 as stated: on every reachable engine, the empty one included, and for
\* every word_count generate_query returns at most word_count entries, no token
\* twice and no excluded token.
C3_Original ==
    IsQuery =>
        /\ Len(ret.val) <= ret.arg
        /\ NoDuplicates(ret.val)
        /\ NoneExcluded(ret.val)

\* C3 amended: generate_query never returns a token twice; when term
\* extraction yields at least one token it returns at most word_count entries
\* and no excluded token; when the history is empty or extraction yields
\* nothing it returns ["trending"], which is one entry even for word_count = 0
\* and may itself be an excluded token.
C3_QueryBounds ==
    IsQuery =>
        /\ NoDuplicates(ret.val)
        /\ words_now # <<>> => Len(ret.val) <= ret.arg /\ NoneExcluded(ret.val)
        /\ words_now = <<>> => Len(ret.val) = 1

\* C3 witness: a query on an engine with excluded tokens that fills word_count
C3_Witness ==
    /\ IsQuery
    /\ words_now # <<>>
    /\ blacklist # <<>>
    /\ ret.arg >= 2
    /\ Len(ret.val) = ret.arg

\* C4: generate_query returns exactly ["trending"], whatever word_count, when
\* the history is empty or when every event is disliked or has all of its
\* tokens excluded.
C4_Fallback ==
    IsQuery /\ (\A i \in DOMAIN history :
                    history[i].disliked \/ \A t \in RawTokens(history[i]) : Excluded(t))
        => ret.val = <<"trending">>

\* C4 witness: the fallback taken on a history that holds an event that is not
\* disliked, all of whose tokens are excluded
C4_Witness ==
    /\ IsQuery
    /\ ret.arg > 1
    /\ ret.val = <<"trending">>
    /\ \E i \in DOMAIN history : ~history[i].disliked /\ RawTokens(history[i]) # {}

\* two calls in a row of the same query with the same argument
Repeated(op) == ret.op = op /\ ret'.op = op /\ ret'.arg = ret.arg /\ history' = history

\* no two scored tokens have the same relevance score
NoTies ==
    LET sc == Scores(Docs(history), blacklist)
    IN  \A w, v \in DOMAIN sc : w # v => ~REq(sc[w], sc[v])

\* C7 as stated: tfidf_top_words(n) returns the same sequence on every call on
\* an unchanged history, and so does generate_query(word_count).
C7_Original ==
    [][/\ Repeated("tfidf_top_words") => ret'.val = ret.val
       /\ Repeated("generate_query") => ret'.val = ret.val]_vars

\* C7 amended: on an unchanged history in which no two scored tokens have equal
\* scores, tfidf_top_words(n) returns the same sequence on every call and so
\* does generate_query(word_count); among tokens of equal score the order is
\* the hash map's, so the result and the walk's start token can differ.
C7_DeterministicWithoutTies ==
    [][NoTies =>
           /\ Repeated("tfidf_top_words") => ret'.val = ret.val
           /\ Repeated("generate_query") => ret'.val = ret.val]_vars

\* C7 witness: relevance scoring ranked two tokens of different scores
C7_Witness ==
    /\ IsTfidf
    /\ NoTies
    /\ Len(ret.val) >= 2

\* the least integer k with k * d >= n
CeilDiv(n, d) == (n + d - 1) \div d

\* the tokens of the passes from position i of the history on, when the event
\* at 1-based position j of N, if not disliked, is passed ceil(3 * j / N) times
RECURSIVE CeilPasses(_)
CeilPasses(i) ==
    IF i > Len(history) THEN <<>>
    ELSE (IF history[i].disliked THEN <<>>
          ELSE Times(OnePass(history[i], blacklist), CeilDiv(3 * i, Len(history))))
             \o CeilPasses(i + 1)

\* the tokens extract_words emits for the event at position i are k passes
EmittedTimes(i, k) ==
    ExtractEvent(history, blacklist, i) = Times(OnePass(history[i], blacklist), k)

\* C9 as stated: an event that is not disliked, at 1-based position i of N, is
\* emitted in ceil(3 * i / N) repeats, so that in every non-empty history the
\* oldest event repeats once and the newest three times.
C9_Original ==
    /\ words_now = CeilPasses(1)
    /\ history # <<>> /\ ~history[1].disliked => EmittedTimes(1, 1)
    /\ history # <<>> /\ ~history[Len(history)].disliked => EmittedTimes(Len(history), 3)

\* C9 amended: an event that is not disliked, at 1-based position i of N, is
\* emitted in ceil(3 * i / N) repeats; the newest event repeats three times,
\* and the oldest repeats once only when N >= 3: it repeats twice when N = 2
\* and three times when N = 1.
C9_Repeats ==
    /\ words_now = CeilPasses(1)
    /\ history # <<>> /\ ~history[Len(history)].disliked => EmittedTimes(Len(history), 3)
    /\ history # <<>> /\ ~history[1].disliked =>
           EmittedTimes(1, CASE Len(history) = 1 -> 3
                             [] Len(history) = 2 -> 2
                             [] OTHER -> 1)

\* C9 witness: three events, the oldest and the newest not disliked and both
\* with tokens to emit, the oldest emitted once and the newest three times
C9_Witness ==
    /\ Len(history) = 3
    /\ ~history[1].disliked /\ OnePass(history[1], blacklist) # <<>>
    /\ ~history[3].disliked /\ OnePass(history[3], blacklist) # <<>>
    /\ Len(ExtractEvent(history, blacklist, 1)) = Len(OnePass(history[1], blacklist))
    /\ Len(ExtractEvent(history, blacklist, 3)) = 3 * Len(OnePass(history[3], blacklist))

\* C10 as stated: past the fallbacks, an odd word_count is split so that the
\* walk takes more steps than relevance-ranked tokens are requested, and the
\* two shares add up to word_count.
C10_Original ==
    IsQuery /\ words_now # <<>> /\ ret.arg % 2 = 1 =>
        /\ calls[2][2] > calls[1][2]
        /\ calls[1][2] + calls[2][2] = ret.arg

\* C10 amended: past the fallbacks, generate_query(word_count) requests
\* floor(word_count / 2) relevance-ranked tokens and walks for the same
\* floor(word_count / 2) steps; the two shares add up to word_count when it is
\* even and to word_count - 1 when it is odd.
C10_Split ==
    IsQuery /\ words_now # <<>> =>
        /\ calls = << <<"tfidf_top_words", ret.arg \div 2>>,
                      <<"walk_markov", ret.arg \div 2>> >>
        /\ calls[1][2] + calls[2][2] = IF ret.arg % 2 = 1 THEN ret.arg - 1 ELSE ret.arg

\* C10 witness: a query for three words past the fallbacks
C10_Witness ==
    /\ IsQuery
    /\ words_now # <<>>
    /\ ret.arg = 3
    /\ calls = << <<"tfidf_top_words", 1>>, <<"walk_markov", 1>> >>

====
